---- MODULE Spec2Model ----
(***************************************************************************)
(* Model of the Gmail watcher (src/gmail_imap.py, GmailIMAPWatcher), of   *)
(* the sent-mail ledger of src/database.py (gmail_tracking), and of the   *)
(* bot (src/bot.py) with its per-user memories (src/memory.py), their     *)
(* tables in src/database.py and its notification scheduler.              *)
(*                                                                         *)
(* The mailbox server, the state file gmail_state.json and the database    *)
(* outlive the process; the watcher object does not.  monitor_loop is a    *)
(* coroutine: pc is its position, and the other handlers interleave with   *)
(* it only where it awaits (callback, sleep).                              *)
(***************************************************************************)
EXTENDS Integers, Sequences, FiniteSets

\* ---------------------------------------------------------------- bounds
MaxUid == 3        \* highest UID the server ever assigns
InitMail == 2      \* most messages in the mailbox when the process starts
MaxFailures == 8   \* largest failure count the backoff delay is evaluated for
MaxTexts == 4      \* most text messages the bot receives in one behaviour

\* ------------------------------------------------------ program constants
max_errors == 5
check_interval == 20
buffer_size == 2   \* the buffer of test_memory.py (BUFFER_WINDOW_SIZE)
summary_limit == 500
history_limit == 10

None == 0          \* Python None / missing JSON key; real UIDs are >= 1
UIDs == 1..MaxUid
Users == {"u1", "u2"}
Consumer == "u1"   \* the user the owning bot notifies (gmail_monitor_user)

\* ------------------------------------------------------------- helpers
Max(S) == CHOOSE x \in S : \A y \in S : y <= x

RECURSIVE Ascending(_)
Ascending(S) == IF S = {} THEN <<>>
              ELSE LET m == CHOOSE x \in S : \A y \in S : x <= y
                   IN <<m>> \o Ascending(S \ {m})

Range(s) == {s[i] : i \in 1..Len(s)}

\* every list of distinct UIDs of S, in every order
DistinctSeqs(S) ==
  UNION {{s \in [1..n -> S] : \A i, j \in 1..n : i # j => s[i] # s[j]}
         : n \in 0..Cardinality(S)}

RECURSIVE SelectUids(_, _)
SelectUids(s, keep) ==
  IF s = <<>> THEN <<>>
  ELSE IF Head(s) \in keep THEN <<Head(s)>> \o SelectUids(Tail(s), keep)
       ELSE SelectUids(Tail(s), keep)

\* ------------------------------------------------------------ state
VARIABLES
  mailbox,            \* UIDs present in INBOX on the server
  uidNext,            \* next UID the server assigns
  file,               \* gmail_state.json: [start_uid, last_notified_uid]
  ledger,             \* rows of gmail_tracking: <<email_id, user_id>>
  dbResult,           \* the latest ledger call and what it returned
  running,            \* self.running
  imap,               \* self.imap is not None
  start_uid,          \* self.start_uid
  last_notified_uid,  \* self.last_notified_uid
  consecutive_errors, \* local of monitor_loop
  pc,                 \* position of monitor_loop
  new_emails,         \* batch being dispatched (<<>> outside the for loop)
  idx,                \* position of the for loop over new_emails
  wait_time,          \* backoff delay being slept (0 outside the backoff)
  \* history (observations, never read by the program)
  delivered,          \* UIDs the callback has been invoked for
  baseline,           \* the first baseline a connect established
  logged              \* the error the latest step of the loop logged

watcherVars == <<mailbox, uidNext, file, ledger, dbResult, running, imap,
                 start_uid, last_notified_uid, consecutive_errors, pc,
                 new_emails, idx, wait_time, delivered, baseline, logged>>

\* the bot (src/bot.py), its memories (src/memory.py) and the tables of
\* src/database.py they are stored in
VARIABLES
  users_active,         \* users: the user_ids with is_active
  user_conversations,   \* user_conversations: user_id -> row
  message_history,      \* message_history: rows in order of their id
  user_memories,        \* self.user_memories: user_id -> memory object
  llm_request,          \* the latest request handed to generate_response
  texts,                \* number of text messages received so far
  scheduler,            \* self.scheduler: [running, jobs]
  notification_jobs,    \* self.notification_jobs: user_id -> job id
  active_notifications, \* self.active_notifications
  notified,             \* the latest message of send_scheduled_notification
  \* history (observations, never read by the program)
  stored,               \* user_id -> what the latest save or delete stored
  conversations,        \* user_id -> entries loaded into or added to a memory
  summarised            \* user_id -> entries handed to _update_summary

dbTables == <<users_active, user_conversations, message_history, stored>>
memoryVars == <<user_memories, llm_request, texts, conversations, summarised>>
notifyVars == <<scheduler, notification_jobs, active_notifications, notified>>
botVars == <<dbTables, memoryVars, notifyVars>>

vars == <<watcherVars, botVars>>

\* ------------------------------------------------------- state file
EmptyState == [start_uid |-> None, last_notified_uid |-> None]

\* _get_state: the JSON object of the file; {} when missing or unreadable
\* (a truncated file is unreadable and reads as {}).
GetState(f) == f

\* _save_state(start_uid=su, last_notified_uid=lu); io is what the write did:
\* "ok", "fail_open" (open raised, file untouched), "fail_dump" (open(.., 'w')
\* truncated the file and the dump raised).  The exception is swallowed.
SaveState(f, su, lu, io) ==
  LET st == [start_uid |-> IF su # None THEN su ELSE GetState(f).start_uid,
             last_notified_uid |->
                 IF lu # None THEN lu ELSE GetState(f).last_notified_uid]
  IN CASE io = "ok" -> st
       [] io = "fail_open" -> f
       [] OTHER -> EmptyState

SaveOutcomes == {"ok", "fail_open", "fail_dump"}

\* ------------------------------------------------------- server
\* uid('search', None, 'ALL'): the UIDs of the mailbox in ascending order
SearchAll(mb) == Ascending(mb)

\* RFC 3501 answer to UID SEARCH UID k:* : every UID >= k, and, because '*'
\* stands for the highest UID and a range ignores the order of its ends, the
\* last message alone when k is above every UID.
RfcAnswer(mb, k) ==
  IF mb = {} THEN <<>>
  ELSE IF \E u \in mb : u >= k THEN Ascending({u \in mb : u >= k})
       ELSE <<Max(mb)>>

\* what a range search may hand back: any list of UIDs of the mailbox
SearchAnswers(mb) == DistinctSeqs(mb)

\* ------------------------------------------------------- connect
ConnectOutcomes == {"ok", "fail_open", "fail_login"}

\* connect() (lines 51-82) as a function of the fields it reads.
Connect(im, su, lu, f, mb, outcome, io) ==
  IF outcome = "fail_open"
    THEN [ok |-> FALSE, imap |-> im, start_uid |-> su,
          last_notified_uid |-> lu, file |-> f]
  ELSE IF outcome = "fail_login"
    THEN [ok |-> FALSE, imap |-> TRUE, start_uid |-> su,
          last_notified_uid |-> lu, file |-> f]
  ELSE IF SearchAll(mb) = <<>>
    THEN [ok |-> TRUE, imap |-> TRUE, start_uid |-> su,
          last_notified_uid |-> lu, file |-> f]
  ELSE LET current_max_uid == SearchAll(mb)[Len(SearchAll(mb))]
           su2 == IF su = None THEN current_max_uid ELSE su
           f2 == IF su = None THEN SaveState(f, su2, None, io) ELSE f
           st == GetState(f2)
       IN [ok |-> TRUE, imap |-> TRUE, start_uid |-> su2,
           last_notified_uid |->
               IF st.last_notified_uid # None THEN st.last_notified_uid
               ELSE su2,
           file |-> f2]

\* line 55: connect() builds a new IMAP4_SSL whatever self.imap (im) holds;
\* a session is opened unless that constructor raises
ConnectOpens(im, outcome) == outcome # "fail_open"

\* connect() writes the state file exactly when it establishes a baseline
ConnectSaves(su, mb, outcome) == outcome = "ok" /\ mb # {} /\ su = None

\* ------------------------------------------------------- fetch
\* The loop body of get_new_emails_since_last_notified (lines 180-206): a
\* UID is kept unless it is <= start_uid, its fetch or parse fails (skip), or
\* the comparison with a None start_uid raises (caught, continue).
KeptUidsInclusive(ans, su, skip) ==
  IF su = None THEN <<>>
  ELSE SelectUids(ans, {u \in Range(ans) : u >= su /\ u \notin skip})

KeptUids(ans, su, skip) ==
  IF su = None THEN <<>>
  ELSE SelectUids(ans, {u \in Range(ans) : u > su /\ u \notin skip})


serverVars == <<mailbox, uidNext>>
dbVars == <<ledger, dbResult>>
histVars == <<delivered, baseline, logged>>

\* ------------------------------------------------------- texts
\* A text message is named by its number in the order of arrival; Reply(t)
\* is what generate_response returns for it.  Every text counts TextChars
\* characters.
Texts == 1..MaxTexts
Reply(t) == MaxTexts + t
TextChars(t) == 40

Min(a, b) == IF a < b THEN a ELSE b

\* a Python dict as a function: d[k] = v and del d[k]
Put(d, k, v) == [x \in DOMAIN d \cup {k} |-> IF x = k THEN v ELSE d[x]]
Del(d, k) == [x \in DOMAIN d \ {k} |-> d[x]]
EmptyDict == [x \in {} |-> None]

\* ------------------------------------------------------- database
\* the entry add_conversation appends to the buffer
Entry(t) == [user |-> t, ai |-> Reply(t), timestamp |-> t]

\* json.dumps of a list of entries: the text of the column recent_messages,
\* the fields of the entries one after the other
RECURSIVE JsonDumps(_)
JsonDumps(msgs) ==
  IF msgs = <<>> THEN <<>>
  ELSE <<Head(msgs).user, Head(msgs).ai, Head(msgs).timestamp>>
         \o JsonDumps(Tail(msgs))

\* json.loads of that text
RECURSIVE JsonLoads(_)
JsonLoads(text) ==
  IF Len(text) < 3 THEN <<>>
  ELSE <<[user |-> text[1], ai |-> text[2], timestamp |-> text[3]]>>
         \o JsonLoads(SubSeq(text, 4, Len(text)))

\* no row of user_conversations for a user; a summary is the list of the
\* texts it quotes, <<>> being the empty string
NoRow == [present |-> FALSE, recent_messages |-> <<>>, summary |-> <<>>]

\* save_user_memory: INSERT ... ON CONFLICT (user_id) DO UPDATE
SaveUserMemoryKeepsFirst(tbl, u, msgs, s) ==
  IF tbl[u].present THEN tbl
  ELSE [tbl EXCEPT ![u] = [present |-> TRUE,
                           recent_messages |-> JsonDumps(msgs),
                           summary |-> s]]

SaveUserMemory(tbl, u, msgs, s) ==
  [tbl EXCEPT ![u] = [present |-> TRUE, recent_messages |-> JsonDumps(msgs),
                      summary |-> s]]

\* load_user_memory: the row of the user decoded, ([], "") without a row
LoadUserMemory(tbl, u) ==
  IF tbl[u].present
    THEN [recent_messages |-> JsonLoads(tbl[u].recent_messages),
          summary |-> tbl[u].summary]
    ELSE [recent_messages |-> <<>>, summary |-> <<>>]

\* add_message_to_history: INSERT INTO message_history
AddMessageToHistory(h, u, role, content) ==
  Append(h, [user_id |-> u, role |-> role, content |-> content])

\* get_recent_messages: the latest limit rows of the user, oldest first
GetRecentMessages(h, u, limit) ==
  LET rows == SelectSeq(h, LAMBDA r : r.user_id = u)
      n == Min(Len(rows), limit)
  IN [i \in 1..n |-> [role |-> rows[Len(rows) - n + i].role,
                      content |-> rows[Len(rows) - n + i].content]]

\* ------------------------------------------------------- memory
\* len(self.summary): "Previously: " + text[:50] + "...", then for every
\* further text "; Also: " + text[:30] + "..."
RECURSIVE SummaryChars(_)
SummaryChars(summary) ==
  IF summary = <<>> THEN 0
  ELSE IF Len(summary) = 1 THEN 12 + Min(TextChars(summary[1]), 50) + 3
  ELSE SummaryChars(SubSeq(summary, 1, Len(summary) - 1))
         + 8 + Min(TextChars(summary[Len(summary)]), 30) + 3

\* _update_summary (lines 45-50)
UpdateSummary(summary, old_message) ==
  IF summary = <<>> THEN <<old_message.user>>
  ELSE IF SummaryChars(summary) < summary_limit
    THEN Append(summary, old_message.user)
  ELSE summary

\* add_conversation up to its database calls (lines 27-36): the memory
\* afterwards, with the entries it handed to _update_summary
AddConversationKeepsOldest(mem, entry) ==
  LET appended == Append(mem.recent_messages, entry)
  IN IF Len(appended) > buffer_size
       THEN [recent_messages |-> SubSeq(appended, 1, Len(appended) - 1),
             summary |-> UpdateSummary(mem.summary, appended[Len(appended)]),
             updated |-> <<appended[Len(appended)]>>]
       ELSE [recent_messages |-> appended, summary |-> mem.summary,
             updated |-> <<>>]

AddConversation(mem, entry) ==
  LET appended == Append(mem.recent_messages, entry)
  IN IF Len(appended) > buffer_size
       THEN [recent_messages |-> Tail(appended),
             summary |-> UpdateSummary(mem.summary, Head(appended)),
             updated |-> <<Head(appended)>>]
       ELSE [recent_messages |-> appended, summary |-> mem.summary,
             updated |-> <<>>]

\* a text of the bot: what get_context returns, or the empty string
EmptyText == [kind |-> "empty", summary |-> <<>>, recent |-> <<>>]

\* get_context (lines 60-72)
GetContext(mem) ==
  LET n == Len(mem.recent_messages)
      recent == SubSeq(mem.recent_messages,
                       IF n > buffer_size THEN n - buffer_size + 1 ELSE 1, n)
  IN IF mem.recent_messages = <<>>
       THEN [kind |-> "no_previous", summary |-> <<>>, recent |-> <<>>]
     ELSE IF mem.summary # <<>>
       THEN [kind |-> "summary_and_recent", summary |-> mem.summary,
             recent |-> recent]
     ELSE [kind |-> "recent", summary |-> <<>>, recent |-> recent]

\* handle_message lines 701-704: the context handed to generate_response,
\* the web part and the memory part; rag_context is "" without a result
CombinedContext(rag_context, memory_context) ==
  IF rag_context # ""
    THEN [web |-> rag_context, memory |-> memory_context]
    ELSE [web |-> "", memory |-> EmptyText]

\* tavily_search: "" without an API key, without a result or on an error
RagContexts == {"", "web"}

\* get_user_memory (lines 163-172): the dict after the call
GetUserMemory(mems, tbl, u) ==
  IF u \in DOMAIN mems THEN mems
  ELSE Put(mems, u, LoadUserMemory(tbl, u))

\* ------------------------------------------------------- scheduler
\* The AsyncIOScheduler of the bot: whether it runs and its jobs, a job
\* being its id and the arguments of send_scheduled_notification.
NoMessage == "None"
CustomMessages == {"m1", "m2"}
DefaultMessage == "reminder"

Job(u, kind, message) ==
  [id |-> <<"user", u, kind>>, user_id |-> u, message |-> message]

\* add_job(..., id=job_id, replace_existing=True)
AddJob(sch, job) ==
  [sch EXCEPT !.jobs = {j \in @ : j.id # job.id} \cup {job}]

\* remove_job(job_id)
RemoveJob(sch, job_id) == [sch EXCEPT !.jobs = {j \in @ : j.id # job_id}]

\* start() and shutdown(), which shuts the job store down with it
StartScheduler(sch) == [sch EXCEPT !.running = TRUE]
ShutdownScheduler(sch) == [running |-> FALSE, jobs |-> {}]

\* send_scheduled_notification (lines 274-289): the message sent
Notification(u, message) ==
  [user_id |-> u,
   text |-> IF message = NoMessage THEN DefaultMessage ELSE message]

NoNotification == [user_id |-> "none", text |-> "none"]
NoRequest == [prompt |-> None, memory_context |-> [web |-> "", memory |-> EmptyText]]

\* ------------------------------------------------------- bot
\* TelegramBotWithDatabaseMemory.__init__ (lines 131-160) over the tables
\* MemoryDatabase.__init__ creates
BotObjectInit ==
  /\ user_memories = EmptyDict
  /\ llm_request = NoRequest
  /\ scheduler = [running |-> FALSE, jobs |-> {}]
  /\ notification_jobs = EmptyDict
  /\ active_notifications = FALSE
  /\ notified = NoNotification
  /\ conversations = [u \in Users |-> <<>>]
  /\ summarised = [u \in Users |-> <<>>]

BotInit ==
  /\ users_active = {}
  /\ user_conversations = [u \in Users |-> NoRow]
  /\ message_history = <<>>
  /\ stored = [u \in Users |-> LoadUserMemory([v \in Users |-> NoRow], u)]
  /\ texts = 0
  /\ BotObjectInit

\* ------------------------------------------------------- initial states
\* __init__ (lines 18-25) and the locals of monitor_loop before it runs
WatcherInit ==
  /\ running = FALSE
  /\ imap = FALSE
  /\ start_uid = None
  /\ last_notified_uid = None
  /\ consecutive_errors = 0
  /\ pc = "idle"
  /\ new_emails = <<>>
  /\ idx = 0
  /\ wait_time = 0

NoCall == [op |-> "none", email_id |-> None, user_id |-> Consumer,
           ret |-> "none", times |-> 0]

\* a first deployment: no state file, no ledger row, some mail in the inbox
Init ==
  /\ \E n \in 0..InitMail : mailbox = 1..n /\ uidNext = n + 1
  /\ file = EmptyState
  /\ ledger = {}
  /\ dbResult = NoCall
  /\ WatcherInit
  /\ delivered = {}
  /\ baseline = None
  /\ logged = "none"
  /\ BotInit

\* gmail_tracking has email_id as its PRIMARY KEY (lines 402-409)
LedgerTables(S) ==
  {t \in SUBSET (S \X Users) : \A r1, r2 \in t : r1[1] = r2[1] => r1 = r2}

\* a process start after an earlier process: that process left a checkpoint
\* in the state file and rows in the ledger for messages of the mailbox
InitRestart ==
  /\ \E n \in 1..InitMail :
       /\ mailbox = 1..n
       /\ uidNext = n + 1
       /\ \E s \in 1..n, c \in 1..n :
            /\ s <= c
            /\ file = [start_uid |-> s, last_notified_uid |-> c]
       /\ ledger \in LedgerTables(1..n)
  /\ dbResult = NoCall
  /\ WatcherInit
  /\ delivered = {}
  /\ baseline = None
  /\ logged = "none"
  /\ BotInit

\* ------------------------------------------------------- monitor_loop
AwaitPoints == {"in_callback", "sleep", "backoff"}

\* the first baseline a connect establishes (history)
NewBaseline(loaded, r) ==
  IF baseline = None /\ loaded = None /\ r.start_uid # None
    THEN r.start_uid ELSE baseline

\* lines 260-276: running = True, load the state file, connect
MonitorStart(outcome, io) ==
  /\ pc = "idle"
  /\ LET st == GetState(file)
         r == Connect(imap, st.start_uid, st.last_notified_uid, file,
                      mailbox, outcome, io)
     IN /\ running' = TRUE
        /\ imap' = r.imap
        /\ start_uid' = r.start_uid
        /\ last_notified_uid' = r.last_notified_uid
        /\ file' = r.file
        /\ pc' = IF r.ok THEN "loop" ELSE "returned"
        /\ baseline' = NewBaseline(st.start_uid, r)
  /\ consecutive_errors' = 0
  /\ logged' = IF outcome = "ok" THEN "none" ELSE "connection_failed"
  /\ UNCHANGED <<serverVars, dbVars, new_emails, idx, wait_time, delivered>>
  /\ UNCHANGED botVars

\* line 279 false, then lines 323-324: disconnect() and return True
LoopExitKeepsSession ==
  /\ pc = "loop"
  /\ ~(running /\ consecutive_errors < max_errors)
  /\ running' = FALSE
  /\ imap' = imap
  /\ pc' = "returned"
  /\ logged' = "none"
  /\ UNCHANGED <<serverVars, file, dbVars, start_uid, last_notified_uid,
                 consecutive_errors, new_emails, idx, wait_time, delivered,
                 baseline>>
  /\ UNCHANGED botVars

LoopExit ==
  /\ pc = "loop"
  /\ ~(running /\ consecutive_errors < max_errors)
  /\ running' = FALSE
  /\ imap' = FALSE
  /\ pc' = "returned"
  /\ logged' = "none"
  /\ UNCHANGED <<serverVars, file, dbVars, start_uid, last_notified_uid,
                 consecutive_errors, new_emails, idx, wait_time, delivered,
                 baseline>>
  /\ UNCHANGED botVars

\* what get_new_emails_since_last_notified returns (lines 160-219): search
\* is "ok" or "error" (the search raises or is not OK: return []), ans is
\* the server's answer, skip the UIDs whose fetch or parse fails
NewEmails(im, su, lu, search, ans, skip) ==
  IF im /\ lu # None /\ search = "ok" THEN KeptUids(ans, su, skip) ELSE <<>>

\* what the call logs: "Error checking new emails" when the search raises
\* (line 218), "Error parsing email" / "Error processing email" when a
\* message above the baseline cannot be fetched or parsed (lines 157, 205)
FetchLogs(im, su, lu, search, ans, skip) ==
  IF ~im \/ lu = None THEN "none"
  ELSE IF search # "ok" THEN "search_error"
  ELSE IF su # None /\ \E u \in Range(ans) : u > su /\ u \in skip
    THEN "message_error"
  ELSE "none"

\* line 279 true, then line 282 with the cursor update of lines 208-213
Fetch(search, ans, skip, io) ==
  /\ pc = "loop"
  /\ running /\ consecutive_errors < max_errors
  /\ LET kept == NewEmails(imap, start_uid, last_notified_uid, search, ans,
                           skip)
         latest_uid == Max(Range(kept))
     IN /\ new_emails' = kept
        /\ last_notified_uid' =
             IF kept # <<>> THEN latest_uid ELSE last_notified_uid
        /\ file' = IF kept # <<>> THEN SaveState(file, None, latest_uid, io)
                   ELSE file
        /\ pc' = IF kept # <<>> THEN "notify" ELSE "noop"
        /\ idx' = IF kept # <<>> THEN 1 ELSE 0
        /\ logged' = FetchLogs(imap, start_uid, last_notified_uid, search,
                               ans, skip)
  /\ UNCHANGED <<serverVars, dbVars, running, imap, start_uid,
                 consecutive_errors, wait_time, delivered, baseline>>
  /\ UNCHANGED botVars

\* line 291: await callback_func(email_data), up to its first suspension
CallbackInvoke ==
  /\ pc = "notify"
  /\ LET u == new_emails[idx]
     IN delivered' = delivered \cup {u}
  /\ pc' = "in_callback"
  /\ logged' = "none"
  /\ UNCHANGED <<serverVars, file, dbVars, running, imap, start_uid,
                 last_notified_uid, consecutive_errors, new_emails, idx,
                 wait_time, baseline>>
  /\ UNCHANGED botVars

\* lines 291-293: the callback returns, or raises and is caught and logged
CallbackReturnPropagates(out) ==
  /\ pc = "in_callback"
  /\ out \in {"ok", "raise"}
  /\ IF out = "raise"
       THEN /\ consecutive_errors' = consecutive_errors + 1
            /\ pc' = IF consecutive_errors + 1 < max_errors
                       THEN "backoff" ELSE "loop"
            /\ new_emails' = <<>> /\ idx' = 0
       ELSE /\ consecutive_errors' = consecutive_errors
            /\ IF idx + 1 > Len(new_emails)
                 THEN pc' = "noop" /\ new_emails' = <<>> /\ idx' = 0
                 ELSE pc' = "notify" /\ new_emails' = new_emails
                      /\ idx' = idx + 1
  /\ logged' = IF out = "raise" THEN "callback_error" ELSE "none"
  /\ UNCHANGED <<serverVars, file, dbVars, running, imap, start_uid,
                 last_notified_uid, wait_time, delivered, baseline>>
  /\ UNCHANGED botVars

CallbackReturn(out) ==
  /\ pc = "in_callback"
  /\ out \in {"ok", "raise"}
  /\ IF idx + 1 > Len(new_emails)
       THEN pc' = "noop" /\ new_emails' = <<>> /\ idx' = 0
       ELSE pc' = "notify" /\ new_emails' = new_emails /\ idx' = idx + 1
  /\ logged' = IF out = "raise" THEN "callback_error" ELSE "none"
  /\ UNCHANGED <<serverVars, file, dbVars, running, imap, start_uid,
                 last_notified_uid, consecutive_errors, wait_time, delivered,
                 baseline>>
  /\ UNCHANGED botVars

\* what monitor_loop returns when it leaves from position p: False from the
\* failed first connect (line 271), True from the end of the loop (line 324)
MonitorLoopReturns(p) == p # "idle"

\* line 314
WaitTimeFromZero(n) == IF 5 * (n - 1) < 30 THEN 5 * (n - 1) ELSE 30

WaitTime(n) == IF 5 * n < 30 THEN 5 * n ELSE 30

\* the positions of monitor_loop; "raised" is left by an exception that no
\* handler of the method catches
LoopPositions ==
  {"idle", "loop", "notify", "in_callback", "noop", "sleep", "backoff",
   "returned"}

\* lines 298-316: NOOP; on success reset the counter and sleep; on an
\* exception count it and, below the ceiling, sleep the backoff delay
NoopEscapes(out) ==
  /\ pc = "noop"
  /\ IF ~imap \/ out = "ok"
       THEN /\ consecutive_errors' = 0
            /\ pc' = "sleep"
            /\ logged' = "none"
       ELSE /\ consecutive_errors' = consecutive_errors
            /\ pc' = "raised"
            /\ logged' = "monitoring_error"
  /\ UNCHANGED <<serverVars, file, dbVars, running, imap, start_uid,
                 last_notified_uid, new_emails, idx, wait_time, delivered,
                 baseline>>
  /\ UNCHANGED botVars

Noop(out) ==
  /\ pc = "noop"
  /\ IF ~imap \/ out = "ok"
       THEN /\ consecutive_errors' = 0
            /\ pc' = "sleep"
            /\ logged' = "none"
            /\ UNCHANGED wait_time
       ELSE /\ consecutive_errors' = consecutive_errors + 1
            /\ logged' = "monitoring_error"
            /\ IF consecutive_errors + 1 < max_errors
                 THEN /\ wait_time' = WaitTime(consecutive_errors + 1)
                      /\ pc' = "backoff"
                 ELSE /\ pc' = "loop"
                      /\ UNCHANGED wait_time
  /\ UNCHANGED <<serverVars, file, dbVars, running, imap, start_uid,
                 last_notified_uid, new_emails, idx, delivered, baseline>>
  /\ UNCHANGED botVars

\* line 306: the sleep ends
Wake ==
  /\ pc = "sleep"
  /\ pc' = "loop"
  /\ logged' = "none"
  /\ UNCHANGED <<serverVars, file, dbVars, running, imap, start_uid,
                 last_notified_uid, consecutive_errors, new_emails, idx,
                 wait_time, delivered, baseline>>
  /\ UNCHANGED botVars

\* disconnect() (lines 84-93) as the pair <<running, imap>> it leaves
Disconnect == [running |-> FALSE, imap |-> FALSE]

\* lines 316-321 (and 323-324 after the break): the backoff sleep ends,
\* disconnect(), then connect(); a failed connect breaks out of the loop
BackoffReconnect(outcome, io) ==
  /\ pc = "backoff"
  /\ LET r == Connect(Disconnect.imap, start_uid, last_notified_uid, file,
                      mailbox, outcome, io)
     IN /\ running' = Disconnect.running
        /\ imap' = (r.ok /\ r.imap)
        /\ start_uid' = r.start_uid
        /\ last_notified_uid' = r.last_notified_uid
        /\ file' = r.file
        /\ pc' = IF r.ok THEN "loop" ELSE "returned"
        /\ baseline' = NewBaseline(start_uid, r)
  /\ wait_time' = 0
  /\ logged' = IF outcome = "ok" THEN "none" ELSE "connection_failed"
  /\ UNCHANGED <<serverVars, dbVars, consecutive_errors, new_emails, idx,
                 delivered>>
  /\ UNCHANGED botVars

\* ------------------------------------------------------- owner and server
\* bot.py line 612: self.gmail_watcher.running = False, run by a command
\* handler while the loop is suspended
StopRequest ==
  /\ pc \in AwaitPoints
  /\ running' = FALSE
  /\ UNCHANGED <<serverVars, file, dbVars, imap, start_uid,
                 last_notified_uid, consecutive_errors, pc, new_emails, idx,
                 wait_time, histVars>>
  /\ UNCHANGED botVars

\* reset_monitoring (lines 326-346), called while the loop is suspended or
\* not running: connect(), then baseline and cursor := current highest UID
ResetMonitoring(outcome, io1, io2) ==
  /\ pc \in AwaitPoints \cup {"idle", "returned"}
  /\ LET r == Connect(imap, start_uid, last_notified_uid, file, mailbox,
                      outcome, io1)
         current_max_uid == Max(mailbox)
     IN /\ imap' = r.imap
        /\ IF r.ok /\ mailbox # {}
             THEN /\ start_uid' = current_max_uid
                  /\ last_notified_uid' = current_max_uid
                  /\ file' = SaveState(r.file, current_max_uid,
                                       current_max_uid, io2)
             ELSE /\ start_uid' = r.start_uid
                  /\ last_notified_uid' = r.last_notified_uid
                  /\ file' = r.file
        /\ baseline' = NewBaseline(start_uid, r)
  /\ UNCHANGED <<serverVars, dbVars, running, consecutive_errors, pc,
                 new_emails, idx, wait_time, delivered, logged>>
  /\ UNCHANGED botVars

\* the process dies or exits at any point and a new one constructs a watcher
\* (__init__, lines 18-25); the state file, the database and the mailbox stay
Restart ==
  /\ pc # "idle"
  /\ running' = FALSE
  /\ imap' = FALSE
  /\ start_uid' = None
  /\ last_notified_uid' = None
  /\ consecutive_errors' = 0
  /\ pc' = "idle"
  /\ new_emails' = <<>>
  /\ idx' = 0
  /\ wait_time' = 0
  /\ logged' = "none"
  /\ UNCHANGED <<serverVars, file, dbVars, delivered, baseline>>
  /\ UNCHANGED botVars

\* __init__ line 25: the name of the state file of the watcher constructed
\* for consumer u
StateFile(u) == "gmail_state.json"

\* a watcher is constructed for consumer u (__init__, lines 18-25: start_uid
\* None) and connect() is called on it, in a handler that runs while the
\* loop is suspended or not running; the instance is then dropped
FreshConnect(u, outcome, io) ==
  /\ pc \in AwaitPoints \cup {"idle", "returned"}
  /\ LET r == Connect(FALSE, None, None, file, mailbox, outcome, io)
     IN file' = IF StateFile(u) = StateFile(Consumer) THEN r.file ELSE file
  /\ UNCHANGED <<serverVars, dbVars, running, imap, start_uid,
                 last_notified_uid, consecutive_errors, pc, new_emails, idx,
                 wait_time, histVars>>
  /\ UNCHANGED botVars

\* a message arrives: the server assigns the next UID
Arrive ==
  /\ uidNext <= MaxUid
  /\ mailbox' = mailbox \cup {uidNext}
  /\ uidNext' = uidNext + 1
  /\ UNCHANGED <<file, dbVars, running, imap, start_uid, last_notified_uid,
                 consecutive_errors, pc, new_emails, idx, wait_time,
                 histVars>>
  /\ UNCHANGED botVars

\* the mailbox owner deletes a message; its UID is never reused
Expunge(u) ==
  /\ u \in mailbox
  /\ mailbox' = mailbox \ {u}
  /\ UNCHANGED <<uidNext, file, dbVars, running, imap, start_uid,
                 last_notified_uid, consecutive_errors, pc, new_emails, idx,
                 wait_time, histVars>>
  /\ UNCHANGED botVars

\* ------------------------------------------------------- ledger
\* MemoryDatabase.__init__ (lines 12-17) assigns conn and is_sqlite only;
\* the gmail_tracking methods use self.cursor and self.db_type
DbAttributes == {"conn", "is_sqlite"}

\* INSERT ... ON CONFLICT (email_id) DO NOTHING on a table whose primary key
\* is email_id (lines 437-440)
InsertRow(t, m, u) ==
  IF \E r \in t : r[1] = m THEN t ELSE t \cup {<<m, u>>}

\* mark_email_as_sent (lines 433-447): the missing attribute raises inside
\* the try and the method returns False.  times counts the calls in a row
\* with the same arguments.
MarkEmailAsSent(m, u) ==
  /\ LET again == dbResult.op = "mark" /\ dbResult.email_id = m
                    /\ dbResult.user_id = u
         times == IF again THEN 2 ELSE 1
     IN IF "cursor" \in DbAttributes
          THEN /\ ledger' = InsertRow(ledger, m, u)
               /\ dbResult' = [op |-> "mark", email_id |-> m, user_id |-> u,
                               ret |-> "True", times |-> times]
          ELSE /\ ledger' = ledger
               /\ dbResult' = [op |-> "mark", email_id |-> m, user_id |-> u,
                               ret |-> "False", times |-> times]
  /\ UNCHANGED <<serverVars, file, running, imap, start_uid,
                 last_notified_uid, consecutive_errors, pc, new_emails, idx,
                 wait_time, histVars>>
  /\ UNCHANGED botVars

\* is_email_already_sent (lines 425-431): no try, the AttributeError escapes
IsEmailAlreadySent(m, u) ==
  /\ dbResult' = [op |-> "is_sent", email_id |-> m, user_id |-> u,
                  ret |-> IF "cursor" \notin DbAttributes
                            THEN "AttributeError"
                          ELSE IF <<m, u>> \in ledger THEN "True"
                          ELSE "False",
                  times |-> 1]
  /\ UNCHANGED <<serverVars, file, ledger, running, imap, start_uid,
                 last_notified_uid, consecutive_errors, pc, new_emails, idx,
                 wait_time, histVars>>
  /\ UNCHANGED botVars

\* ------------------------------------------------------- bot handlers
\* The handlers run one at a time; each changes the state of the bot
\* before its first await, so a handler is one step.

\* what a memory constructed by a handler starts its history with
LoadedHistory(u) ==
  IF u \in DOMAIN user_memories THEN conversations[u]
  ELSE LoadUserMemory(user_conversations, u).recent_messages

PassedHistory(u) ==
  IF u \in DOMAIN user_memories THEN summarised[u] ELSE <<>>

\* handle_message (lines 680-738) for the next text of user u, the web
\* search returning rag_context
HandleMessage(u, rag_context) ==
  /\ texts < MaxTexts
  /\ LET t == texts + 1
         mems == GetUserMemory(user_memories, user_conversations, u)
         memory_context == GetContext(mems[u])
         after == AddConversation(mems[u], Entry(t))
         kept == [recent_messages |-> after.recent_messages,
                  summary |-> after.summary]
     IN /\ texts' = t
        /\ llm_request' =
             [prompt |-> t,
              memory_context |-> CombinedContext(rag_context, memory_context)]
        /\ user_memories' = Put(mems, u, kept)
        /\ message_history' =
             AddMessageToHistory(
               AddMessageToHistory(message_history, u, "user", t),
               u, "assistant", Reply(t))
        /\ user_conversations' =
             SaveUserMemory(user_conversations, u, kept.recent_messages,
                            kept.summary)
        /\ stored' = [stored EXCEPT ![u] = kept]
        /\ conversations' =
             [conversations EXCEPT ![u] = Append(LoadedHistory(u), Entry(t))]
        /\ summarised' =
             [summarised EXCEPT ![u] = PassedHistory(u) \o after.updated]
  /\ UNCHANGED <<users_active, notifyVars, watcherVars>>

\* delete_user_memory (lines 343-354)
DeleteUserMemory(u) ==
  /\ user_conversations' = [user_conversations EXCEPT ![u] = NoRow]
  /\ message_history' = SelectSeq(message_history, LAMBDA r : r.user_id # u)
  /\ users_active' = users_active \ {u}
  /\ stored' = [stored EXCEPT ![u] = LoadUserMemory([w \in Users |-> NoRow], u)]

\* clear_command (lines 740-745) with memory.clear (lines 74-79)
ClearCommand(u) ==
  /\ LET mems == GetUserMemory(user_memories, user_conversations, u)
     IN user_memories' =
          Put(mems, u, [recent_messages |-> <<>>, summary |-> <<>>])
  /\ DeleteUserMemory(u)
  /\ conversations' = [conversations EXCEPT ![u] = <<>>]
  /\ summarised' = [summarised EXCEPT ![u] = <<>>]
  /\ UNCHANGED <<llm_request, texts, notifyVars, watcherVars>>

\* memory_command (lines 747-760): constructs the memory of a user that
\* has none in this process
MemoryCommand(u) ==
  /\ u \notin DOMAIN user_memories
  /\ user_memories' = GetUserMemory(user_memories, user_conversations, u)
  /\ conversations' = [conversations EXCEPT ![u] = LoadedHistory(u)]
  /\ summarised' = [summarised EXCEPT ![u] = <<>>]
  /\ UNCHANGED <<dbTables, llm_request, texts, notifyVars, watcherVars>>

\* the bot process ends and a new one is constructed over the same tables
BotRestart ==
  /\ user_memories' = EmptyDict
  /\ llm_request' = NoRequest
  /\ scheduler' = [running |-> FALSE, jobs |-> {}]
  /\ notification_jobs' = EmptyDict
  /\ active_notifications' = FALSE
  /\ notified' = NoNotification
  /\ conversations' = [u \in Users |-> <<>>]
  /\ summarised' = [u \in Users |-> <<>>]
  /\ UNCHANGED <<dbTables, texts, watcherVars>>

\* start_command (lines 176-192): save_user_for_notifications
StartCommand(u) ==
  /\ users_active' = users_active \cup {u}
  /\ UNCHANGED <<user_conversations, message_history, stored, memoryVars,
                 notifyVars, watcherVars>>

\* start_notifications_command (lines 291-333); sent tells whether the
\* first notification went out
StartNotificationsCommand(u, message, sent) ==
  /\ IF u \in DOMAIN notification_jobs
       THEN UNCHANGED notifyVars
       ELSE LET job == Job(u, "notifications", message)
                added == AddJob(scheduler, job)
            IN /\ notification_jobs' = Put(notification_jobs, u, job.id)
               /\ active_notifications' = TRUE
               /\ scheduler' = IF ~added.running THEN StartScheduler(added)
                                ELSE added
               /\ notified' = IF sent THEN Notification(u, message)
                               ELSE notified
  /\ UNCHANGED <<dbTables, memoryVars, watcherVars>>

\* stop_notifications_command (lines 337-362)
StopNotificationsCommand(u) ==
  /\ IF u \notin DOMAIN notification_jobs
       THEN UNCHANGED notifyVars
       ELSE LET removed == RemoveJob(scheduler, notification_jobs[u])
                left == Del(notification_jobs, u)
            IN /\ notification_jobs' = left
               /\ IF DOMAIN left = {} /\ removed.running
                    THEN /\ scheduler' = ShutdownScheduler(removed)
                         /\ active_notifications' = FALSE
                    ELSE /\ scheduler' = removed
                         /\ UNCHANGED active_notifications
               /\ UNCHANGED notified
  /\ UNCHANGED <<dbTables, memoryVars, watcherVars>>

\* the for loop of broadcast_scheduled_command (lines 408-420): the users
\* it adds a job for
BroadcastTargetsEveryUser(user_ids, jobs) == user_ids

BroadcastTargets(user_ids, jobs) == {u \in user_ids : u \notin DOMAIN jobs}

\* the scheduler and the dict after that loop
BroadcastJobs(user_ids, message, sch, jobs) ==
  LET targets == BroadcastTargets(user_ids, jobs)
      added == {Job(u, "scheduled", message) : u \in targets}
  IN [scheduler |->
        [sch EXCEPT !.jobs = {j \in @ : \A a \in added : a.id # j.id}
                               \cup added],
      notification_jobs |->
        [x \in DOMAIN jobs \cup targets |->
           IF x \in targets THEN Job(x, "scheduled", message).id
           ELSE jobs[x]]]

\* broadcast_scheduled_command (lines 386-432) with the message of its
\* arguments, NoMessage without arguments
BroadcastScheduledCommand(message) ==
  /\ IF message = NoMessage \/ users_active = {}
       THEN UNCHANGED notifyVars
       ELSE LET r == BroadcastJobs(users_active, message, scheduler,
                                   notification_jobs)
            IN /\ notification_jobs' = r.notification_jobs
               /\ IF ~r.scheduler.running
                    THEN /\ scheduler' = StartScheduler(r.scheduler)
                         /\ active_notifications' = TRUE
                    ELSE /\ scheduler' = r.scheduler
                         /\ UNCHANGED active_notifications
               /\ UNCHANGED notified
  /\ UNCHANGED <<dbTables, memoryVars, watcherVars>>

\* a job of the running scheduler comes due: send_scheduled_notification
JobFires(job) ==
  /\ scheduler.running
  /\ job \in scheduler.jobs
  /\ notified' = Notification(job.user_id, job.message)
  /\ UNCHANGED <<scheduler, notification_jobs, active_notifications,
                 dbTables, memoryVars, watcherVars>>

\* ------------------------------------------------------- specifications
\* the watcher with every outcome of its environment.  A fetch or parse
\* failure of a message leaves the same batch as an answer without that
\* message, which is among the answers, so skip is {} here.
Next ==
  \/ \E o \in ConnectOutcomes, io \in SaveOutcomes : MonitorStart(o, io)
  \/ LoopExit
  \/ \E ans \in SearchAnswers(mailbox), io \in SaveOutcomes :
       Fetch("ok", ans, {}, io)
  \/ Fetch("error", <<>>, {}, "ok")
  \/ CallbackInvoke
  \/ \E out \in {"ok", "raise"} : CallbackReturn(out)
  \/ \E out \in {"ok", "raise"} : Noop(out)
  \/ Wake
  \/ \E o \in ConnectOutcomes, io \in SaveOutcomes : BackoffReconnect(o, io)
  \/ StopRequest
  \/ \E o \in ConnectOutcomes, io1 \in SaveOutcomes, io2 \in SaveOutcomes :
       ResetMonitoring(o, io1, io2)
  \/ Restart
  \/ Arrive
  \/ \E u \in UIDs : Expunge(u)

Spec == Init /\ [][Next]_vars

\* uninterrupted operation: no crash, no stop request, every connect, search,
\* fetch, parse, callback, NOOP and file write succeeds, and the server
\* answers each range search as RFC 3501 prescribes
NextNormal ==
  \/ MonitorStart("ok", "ok")
  \/ Fetch("ok", RfcAnswer(mailbox, last_notified_uid + 1), {}, "ok")
  \/ CallbackInvoke
  \/ CallbackReturn("ok")
  \/ Noop("ok")
  \/ Wake
  \/ Arrive
  \/ \E u \in UIDs : Expunge(u)

SpecNormal == Init /\ [][NextNormal]_vars

\* a restarted process in uninterrupted operation, with an owner that uses
\* the ledger
NextLedger ==
  \/ NextNormal
  \/ \E m \in UIDs, u \in Users : MarkEmailAsSent(m, u)
  \/ \E m \in UIDs, u \in Users : IsEmailAlreadySent(m, u)

SpecLedger == InitRestart /\ [][NextLedger]_vars

\* a failed cycle whose reconnect succeeds: uninterrupted operation, except
\* that the NOOP may raise; no stop request, every connect succeeds
NextRecover ==
  \/ NextNormal
  \/ Noop("raise")
  \/ BackoffReconnect("ok", "ok")
  \/ LoopExit

SpecRecover == Init /\ [][NextRecover]_vars

\* the loop with an RFC 3501 server and every failure the session, the
\* callback and the owner can produce: a connect fails, the range search
\* raises, a message cannot be fetched or parsed (skip), the callback raises,
\* the NOOP raises, the owner asks the loop to stop.  No crash, no reset, and
\* the state file is written without error.
LoopStepFaults ==
  \/ \E o \in ConnectOutcomes : MonitorStart(o, "ok")
  \/ LoopExit
  \/ \E skip \in SUBSET mailbox :
       Fetch("ok", RfcAnswer(mailbox, last_notified_uid + 1), skip, "ok")
  \/ Fetch("error", <<>>, {}, "ok")
  \/ CallbackInvoke
  \/ \E out \in {"ok", "raise"} : CallbackReturn(out)
  \/ \E out \in {"ok", "raise"} : Noop(out)
  \/ Wake
  \/ \E o \in ConnectOutcomes : BackoffReconnect(o, "ok")

NextFaults ==
  \/ LoopStepFaults
  \/ StopRequest
  \/ Arrive

SpecFaults == Init /\ [][NextFaults]_vars

\* the same, with the event loop resuming the coroutine whenever it can run:
\* every sleep ends and every awaited callback returns or raises
SpecStop == SpecFaults /\ WF_vars(LoopStepFaults)

\* uninterrupted operation, with the consumer connecting a second, freshly
\* constructed watcher of its own from time to time (a manual check)
NextManual ==
  \/ NextNormal
  \/ FreshConnect(Consumer, "ok", "ok")

SpecManual == Init /\ [][NextManual]_vars

\* uninterrupted operation of the consumer's watcher, while watchers of the
\* other consumers are constructed and connected
NextShared ==
  \/ NextNormal
  \/ \E u \in Users \ {Consumer} : FreshConnect(u, "ok", "ok")

SpecShared == Init /\ [][NextShared]_vars

\* uninterrupted operation in which the owner calls reset_monitoring; the
\* connect inside it succeeds, its writes of the state file may fail
NextReset ==
  \/ NextNormal
  \/ \E io1, io2 \in SaveOutcomes : ResetMonitoring("ok", io1, io2)

SpecReset == Init /\ [][NextReset]_vars

\* the bot answering text messages, /clear and /memory, across restarts
NextBot ==
  \/ \E u \in Users, rag_context \in RagContexts :
       HandleMessage(u, rag_context)
  \/ \E u \in Users : ClearCommand(u)
  \/ \E u \in Users : MemoryCommand(u)
  \/ BotRestart

SpecBot == Init /\ [][NextBot]_vars

\* the bot serving /start, the notification commands and /clear while the
\* jobs of its scheduler come due
NextNotify ==
  \/ \E u \in Users : StartCommand(u)
  \/ \E u \in Users, message \in CustomMessages \cup {NoMessage},
        sent \in BOOLEAN : StartNotificationsCommand(u, message, sent)
  \/ \E u \in Users : StopNotificationsCommand(u)
  \/ \E message \in CustomMessages \cup {NoMessage} :
       BroadcastScheduledCommand(message)
  \/ \E job \in scheduler.jobs : JobFires(job)
  \/ \E u \in Users : ClearCommand(u)

SpecNotify == Init /\ [][NextNotify]_vars

\* ------------------------------------------------------- properties
\* C1: over the fetch cycles of a watcher the cursor persisted in the state
\* file (last_notified_uid) never decreases.
C1_CursorNeverDecreases ==
  [][(pc = "loop" /\ file.last_notified_uid # None
        /\ file'.last_notified_uid # None)
       => file'.last_notified_uid >= file.last_notified_uid]_vars

\* C2: commit-after-success: the persisted cursor reaches the UID of a record
\* of the batch only after the callback for that record has returned.
C2_CommitAfterSuccess ==
  \A i \in 1..Len(new_emails) :
    file.last_notified_uid >= new_emails[i] => i < idx

\* C3: in uninterrupted operation no message is handed to the callback a
\* second time.
C3_NeverDispatchedTwice ==
  [][(pc = "notify" /\ pc' = "in_callback")
       => new_emails[idx] \notin delivered]_vars

\* C4: a first-run connect (no state file, mail in the inbox) sets the
\* baseline to the highest UID of the mailbox and starts the cursor there,
\* and no message with a UID <= that baseline is ever handed to the callback.
C4_FirstRunStep ==
  (pc = "idle" /\ pc' = "loop" /\ file = EmptyState /\ mailbox # {})
    => /\ start_uid' = Max(mailbox)
       /\ last_notified_uid' = start_uid'
       /\ baseline = None => baseline' = Max(mailbox)

C4_BaselineNeverDelivered ==
  baseline # None => \A u \in delivered : u > baseline

C5_AscendingDispatch ==
  pc \in {"notify", "in_callback"} =>
    \A i, j \in 1..(IF pc = "in_callback" THEN idx ELSE idx - 1) :
      i < j => new_emails[i] < new_emails[j]

\* C6: get_new_emails_since_last_notified never returns a message whose UID
\* is <= the cursor it searched from.
C6_FetchAboveCursor ==
  [][pc = "loop" =>
       \A i \in 1..Len(new_emails') :
         new_emails'[i] > last_notified_uid]_vars

\* C7: a message recorded in the ledger for the consumer is not handed to
\* the callback again by a restarted watcher.
C7_LedgerPreventsRedelivery ==
  \A u \in delivered : <<u, Consumer>> \notin ledger

\* C8: after two calls of mark_email_as_sent with the same (email_id,
\* user_id) the ledger holds exactly one row for the pair and the call
\* reported success.
C8_MarkIdempotent ==
  (dbResult.op = "mark" /\ dbResult.times = 2) =>
    /\ dbResult.ret = "True"
    /\ Cardinality({r \in ledger :
                      r = <<dbResult.email_id, dbResult.user_id>>}) = 1

\* C9: the ledger is keyed by (email_id, user_id): after mark_email_as_sent(m,
\* c) the pair (m, c) is in the ledger, whichever consumers m was recorded
\* for before, and is_email_already_sent(m, c) answers by that pair.
C9_LedgerKeyedByPair ==
  /\ dbResult.op = "mark" =>
       <<dbResult.email_id, dbResult.user_id>> \in ledger
  /\ dbResult.op = "is_sent" =>
       dbResult.ret =
         IF <<dbResult.email_id, dbResult.user_id>> \in ledger
           THEN "True" ELSE "False"

\* C10: with no stop request and every connect succeeding, the loop ends
\* only at the error ceiling: one failed cycle followed by a successful
\* reconnect does not stop it.
C10_RecoversAfterError ==
  pc = "returned" => consecutive_errors >= max_errors

\* C11: the delay slept after the n-th consecutive failure is
\* min(30, 2 * 2^(n-1)) seconds: 2, 4, 8, 16, 30 for n = 1..5.
C11_ExponentialBackoff ==
  pc = "backoff" =>
    wait_time = (IF 2 * 2^(consecutive_errors - 1) < 30
                   THEN 2 * 2^(consecutive_errors - 1) ELSE 30)

\* C12: monitor_loop ends because of errors only at the error ceiling, and
\* then returns something other than what it returns after a graceful stop.
C12_ErrorStopIsFatal ==
  [][(pc # "returned" /\ pc' = "returned" /\ consecutive_errors' > 0)
       => /\ consecutive_errors' >= max_errors
          /\ MonitorLoopReturns(pc) # MonitorLoopReturns("loop")]_vars

\* C13: a connect that fails, at the start of monitor_loop or after a
\* backoff, does not end the loop while the error counter is below the
\* ceiling.
C13_FailedConnectRetried ==
  [][(pc \in {"idle", "backoff"} /\ logged' = "connection_failed"
        /\ consecutive_errors' < max_errors)
       => pc' # "returned"]_vars

\* C14: a range search that fails is counted as an error of the cycle: the
\* loop increments consecutive_errors and goes to the backoff, it does not go
\* on as after an empty answer.
C14_FetchErrorCounted ==
  logged = "search_error" => pc = "backoff" /\ consecutive_errors > 0

\* C15: after a stop request (running set to False while the loop is
\* suspended) the loop eventually has returned with the session logged out;
\* the callback in progress is not abandoned, and once the loop has read the
\* flag it starts no further fetch.
C15_StopRequested == pc \in AwaitPoints /\ ~running

C15_Stopped == pc = "returned" /\ ~running /\ ~imap

C15_StopStep ==
  /\ (pc = "in_callback" /\ ~running)
       => pc' \in {"in_callback", "notify", "noop"}
  /\ (pc = "loop" /\ ~running) => pc' \in {"loop", "returned"}

C15_GracefulStop ==
  (C15_StopRequested ~> C15_Stopped) /\ [][C15_StopStep]_vars

\* a stop has been requested during the callback of a record that is not
\* the last of its batch, with the session open
C15_Witness ==
  /\ pc = "in_callback" /\ ~running /\ imap
  /\ idx < Len(new_emails)

\* C16: once a stop has been requested during the callback of a record, no
\* callback is invoked for the later records of the batch.
C16_StopBetweenRecords ==
  [][(pc = "notify" /\ pc' = "in_callback") => running]_vars

\* C17: when the callback raises for a record, the loop counts no error and
\* goes on with the next record of the batch (or with the NOOP after the
\* last one); no ledger row is written for the record, and the cursor, in
\* memory and in the state file, is at or above the record's UID.
C17_CallbackErrorStep ==
  (pc = "in_callback" /\ logged' = "callback_error")
    => /\ consecutive_errors' = consecutive_errors
       /\ IF idx < Len(new_emails)
            THEN pc' = "notify" /\ new_emails' = new_emails /\ idx' = idx + 1
            ELSE pc' = "noop"
       /\ ledger' = ledger
       /\ last_notified_uid' >= new_emails[idx]
       /\ file'.last_notified_uid >= new_emails[idx]

C17_CallbackErrorContained == [][C17_CallbackErrorStep]_vars

\* the callback has raised for the first record of a batch and the loop is
\* about to dispatch the second
C17_Witness ==
  /\ logged = "callback_error" /\ pc = "notify" /\ idx = 2
  /\ consecutive_errors = 0

\* C18: when a message of the search answer cannot be fetched or parsed,
\* the batch holds only messages of the answer and, after the call, the
\* cursor is at or above the UID of every message of the answer that lies
\* above the baseline, the unparseable ones included.
C18_ParseFailureStep ==
  (pc = "loop" /\ logged' = "message_error")
    => LET ans == RfcAnswer(mailbox, last_notified_uid + 1)
           fetched == {u \in Range(ans) : u > start_uid}
       IN /\ Range(new_emails') \subseteq fetched
          /\ \A u \in fetched : last_notified_uid' >= u

C18_ParseFailureDoesNotBlock == [][C18_ParseFailureStep]_vars

\* C19: a call of get_new_emails_since_last_notified leaves the cursor in
\* memory, the cursor in the state file and the ledger as they were.
C19_FetchHasNoSideEffect ==
  [][(pc = "loop" /\ pc' \in {"notify", "noop"})
       => /\ last_notified_uid' = last_notified_uid
          /\ file' = file
          /\ ledger' = ledger]_vars

\* C20: wherever connect() can be called on a watcher that is connected
\* (reset_monitoring during an await of the loop), the call opens no session
\* and leaves the baseline and the cursor as they are.
C20_ConnectIdempotent ==
  (imap /\ pc \in AwaitPoints) =>
    LET r == Connect(imap, start_uid, last_notified_uid, file, mailbox,
                     "ok", "ok")
    IN /\ ~ConnectOpens(imap, "ok")
       /\ r.start_uid = start_uid
       /\ r.last_notified_uid = last_notified_uid

\* C21: the loop never starts dispatching a batch while the cursor in the
\* state file differs from the cursor in memory: a failed write of the state
\* file stops the cycle.
C21_NoDispatchAfterFailedSave ==
  [][(pc = "loop" /\ pc' = "notify")
       => file'.last_notified_uid = last_notified_uid']_vars

\* C22: a watcher started on a persisted checkpoint loads its baseline and
\* cursor, and each of its fetches returns exactly the messages of the
\* mailbox above the persisted cursor: none at or below it, all above it.
C22_ResumeStep ==
  /\ (pc = "idle" /\ pc' = "loop")
       => /\ start_uid' = file.start_uid
          /\ last_notified_uid' = file.last_notified_uid
  /\ (pc = "loop" /\ pc' \in {"notify", "noop"})
       => Range(new_emails') =
            {u \in mailbox : u > file.last_notified_uid}

C22_ResumeFromCheckpoint == [][C22_ResumeStep]_vars

\* C23: once a baseline is in the state file no connect() changes it, nor
\* the persisted cursor: the baseline of the file stays what it is, and the
\* cursor of the file changes only in a step of the loop.
C23_BaselinePersistedOnce ==
  [][file.start_uid # None
       => /\ file'.start_uid = file.start_uid
          /\ pc' = pc => file'.last_notified_uid = file.last_notified_uid
     ]_vars

\* C24: the checkpoint the consumer's watcher loads is changed by no watcher
\* of another consumer: it changes only in a step of the consumer's loop.
C24_CheckpointPerConsumer ==
  [][pc' = pc => file' = file]_vars

\* C25: whenever monitor_loop has returned, running is False.
C25_NotRunningAfterReturn == pc = "returned" => ~running

C27_CursorSetAfterConnect ==
  [][(pc = "idle" /\ pc' = "loop") => last_notified_uid' # None]_vars

\* C28: consecutive_errors counts the failed cycles since the last fully
\* successful one: it stays within 0..max_errors, and at the end of a cycle
\* it becomes 0 when the search and the NOOP of the cycle succeeded and
\* grows by exactly 1 when one of them failed.
C28_CounterStep ==
  (pc = "noop" /\ pc' \in {"sleep", "backoff", "loop"})
    => IF logged = "search_error" \/ logged' = "monitoring_error"
         THEN consecutive_errors' = consecutive_errors + 1
         ELSE consecutive_errors' = 0

C28_CounterInRange ==
  consecutive_errors >= 0 /\ consecutive_errors <= max_errors

C28_CountsFailedCycles == []C28_CounterInRange /\ [][C28_CounterStep]_vars

\* C29: the delay the loop sleeps in its backoff is > 0 and <= 30, and the
\* delay computed for n failures is > 0, <= 30 and not below the delay for
\* n - 1 failures.
C29_BackoffDelayBounds ==
  /\ pc = "backoff" =>
       /\ wait_time = WaitTime(consecutive_errors)
       /\ wait_time > 0 /\ wait_time <= 30
  /\ \A n \in 1..MaxFailures :
       /\ WaitTime(n) > 0 /\ WaitTime(n) <= 30
       /\ n > 1 => WaitTime(n - 1) <= WaitTime(n)

\* the loop sleeps the delay of its first failure
C29_Witness ==
  pc = "backoff" /\ consecutive_errors = 1 /\ wait_time = 5

\* C30: the loop does not go on forever through cycles that all fail: if
\* the search of every cycle fails, a loop that has started eventually has
\* returned with the session logged out.
C30_EveryCycleFails == [](pc = "noop" => logged = "search_error")

C30_Stopped == pc = "returned" /\ ~imap

C30_StopsWhenEveryCycleFails ==
  C30_EveryCycleFails => ((pc = "loop") ~> C30_Stopped)

\* C31: a reset_monitoring() that returns True leaves the baseline and the
\* cursor, in memory and in the state file, equal to the highest UID of the
\* mailbox, and every batch fetched afterwards holds only UIDs above it.
C31_ResetReturnsTrue ==
  /\ mailbox # {}
  /\ \E io1, io2 \in SaveOutcomes : ResetMonitoring("ok", io1, io2)

C31_AfterReset ==
  /\ start_uid' = Max(mailbox)
  /\ last_notified_uid' = Max(mailbox)
  /\ GetState(file').start_uid = Max(mailbox)
  /\ GetState(file').last_notified_uid = Max(mailbox)

C31_FetchAboveBaseline ==
  new_emails' # new_emails
    => \A i \in 1..Len(new_emails') : new_emails'[i] > start_uid'

C31_ResetEstablishesBaseline ==
  /\ [][C31_ResetReturnsTrue => C31_AfterReset]_vars
  /\ [][C31_FetchAboveBaseline]_vars

\* C32: a memory whose loaded buffer holds at most buffer_size entries
\* holds, after every add_conversation, at most buffer_size entries; they
\* are the latest of the entries loaded and added, in their order, and the
\* entries before them are the ones handed to the summary update.
C32_BufferWindow ==
  \A u \in DOMAIN user_memories :
    /\ Len(user_memories[u].recent_messages) <= buffer_size
    /\ conversations[u] = summarised[u] \o user_memories[u].recent_messages

C32_Witness ==
  \E u \in DOMAIN user_memories :
    /\ Len(summarised[u]) >= 2
    /\ Len(user_memories[u].recent_messages) = buffer_size

\* C33: load_user_memory returns what the latest save_user_memory of the
\* user stored, ([], "") for a user never saved or deleted; a memory is
\* constructed with it; delete_user_memory leaves the user without memory
\* and without history and the memory and history of every other user as
\* they were.
C33_LoadsLatestSave ==
  \A u \in Users : LoadUserMemory(user_conversations, u) = stored[u]

C33_ConstructStep ==
  \A u \in Users :
    MemoryCommand(u) => user_memories'[u] = stored[u]

C33_DeleteStep ==
  \A u \in Users :
    ClearCommand(u) =>
      /\ LoadUserMemory(user_conversations', u)
           = [recent_messages |-> <<>>, summary |-> <<>>]
      /\ GetRecentMessages(message_history', u, history_limit) = <<>>
      /\ \A v \in Users \ {u} :
           /\ LoadUserMemory(user_conversations', v)
                = LoadUserMemory(user_conversations, v)
           /\ GetRecentMessages(message_history', v, history_limit)
                = GetRecentMessages(message_history, v, history_limit)

C33_MemoryRoundTrip ==
  /\ []C33_LoadsLatestSave
  /\ [][C33_ConstructStep]_vars
  /\ [][C33_DeleteStep]_vars

C33_Witness ==
  /\ texts >= 4
  /\ Len(message_history) = 2 * (texts - 1)
  /\ \A i \in 1..Len(message_history) : message_history[i].user_id = "u1"
  /\ stored["u1"].summary # <<>>
  /\ ~user_conversations["u2"].present
  /\ "u1" \in DOMAIN user_memories
  /\ user_memories["u1"] = stored["u1"]

\* C34: for every text message the request handed to the LLM holds the
\* memory context of the sender, whether or not the web search returned a
\* result.
C34_MessageStep ==
  texts' # texts =>
    \E u \in Users :
      /\ message_history'[Len(message_history')].user_id = u
      /\ llm_request'.memory_context.memory =
           GetContext(GetUserMemory(user_memories, user_conversations, u)[u])

C34_MemoryContextAlwaysPassed == [][C34_MessageStep]_vars

\* C35: whenever the watcher holds both a baseline and a cursor, the cursor
\* is at or above the baseline.
C35_CursorAtOrAboveBaseline ==
  (start_uid # None /\ last_notified_uid # None)
    => last_notified_uid >= start_uid

\* C37: each user has at most one job in the scheduler, notification_jobs
\* holds a user exactly when the scheduler holds a job of that user, and
\* the scheduler runs, and active_notifications is True, exactly when
\* notification_jobs is not empty.
C37_NotificationJobs ==
  /\ \A j1, j2 \in scheduler.jobs : j1.user_id = j2.user_id => j1 = j2
  /\ \A u \in Users :
       u \in DOMAIN notification_jobs
         <=> \E j \in scheduler.jobs : j.user_id = u
  /\ \A u \in DOMAIN notification_jobs :
       \E j \in scheduler.jobs : j.id = notification_jobs[u]
  /\ scheduler.running <=> DOMAIN notification_jobs # {}
  /\ active_notifications <=> DOMAIN notification_jobs # {}

C37_Witness ==
  /\ \E j \in scheduler.jobs :
       j.id = <<"user", "u1", "notifications">> /\ j.message = NoMessage
  /\ \E j \in scheduler.jobs :
       j.id = <<"user", "u2", "scheduled">> /\ j.message = "m1"
  /\ users_active = {"u1", "u2"}
  /\ notified = Notification("u2", "m1")

====
